---- MODULE Spec2Model ----
(***************************************************************************)
(* Run execution subsystem of the Robot Framework test manager backend:    *)
(* the trigger and cancel endpoints (routers/runs.py), the background      *)
(* worker of a run, its two stream-capture tasks and the child process     *)
(* (services/executor.py), and the rows of the runs and run_steps tables   *)
(* (core/models.py).                                                       *)
(***************************************************************************)
EXTENDS Integers, Sequences, FiniteSets, TLC

(* ------------------------------ bounds -------------------------------- *)
\* The most lines a child writes, over both streams.
MaxLines == 2
\* The last instant of the clock.
MaxClock == 1
\* The most entries of Scenario.inputs and of Run.variables.
MaxVars == 2

(* ----------------------------- value sets ----------------------------- *)
\* Ids the runs table can hand out, and the ones Spec follows: runs share no
\* state but the store, so Spec follows one run through every interleaving of
\* its worker, its capture tasks, its child and the requests on it.
RunIds == {1, 2}
OneRun == {1}
TestCaseIds == {1, 2}
ScenarioIds == {1}
GroupIds == {1}
Streams == {"stdout", "stderr"}
\* Lines a child can write, as bytes ending in a newline; 255 is a byte that
\* is not valid UTF-8.
Lines == {<<65, 10>>, <<255, 10>>}
ExitCodes == {0, 1, 2}
SpawnErrors == {"ENOENT", "EACCES"}
IOErrors == {"ENOSPC"}
CaptureErrors == {"LimitOverrun"}
\* What a statement on the store can raise.
StoreErrors == {"OperationalError"}

None == <<>>
Some(x) == <<x>>

(* --------------- JSON objects: Scenario.inputs, Run.variables ---------- *)
\* Text is a sequence of pieces, so that formatting is concatenation.
Keys == {<<"A">>, <<"B">>, <<"C">>}
JsonInt(n) == [type |-> "int", val |-> n]
JsonStr(text) == [type |-> "str", val |-> text]
InputValues == {JsonInt(1), JsonInt(2)}
VariableValues == {JsonInt(3), JsonStr(<<"4">>)}

\* A dict is the sequence of its items in insertion order, each key once.
Dicts(ks, vs, n) ==
    {d \in UNION {[1..m -> ks \X vs] : m \in 0..n} :
        \A i, j \in DOMAIN d : d[i][1] = d[j][1] => i = j}
keys(d) == {d[i][1] : i \in DOMAIN d}
get(d, k) == d[CHOOSE i \in DOMAIN d : d[i][1] = k][2]

\* d[k] = v: a key already present keeps its place and takes the new value.
setitem(d, k, v) ==
    IF k \in keys(d)
    THEN [i \in DOMAIN d |-> IF d[i][1] = k THEN <<k, v>> ELSE d[i]]
    ELSE Append(d, <<k, v>>)

\* dict.update that keeps the value of a key already present.
RECURSIVE update_keeping(_, _)
update_keeping(d, e) ==
    IF e = <<>> THEN d
    ELSE update_keeping(IF Head(e)[1] \in keys(d) THEN d
                        ELSE Append(d, Head(e)), Tail(e))

\* d.update(e)
RECURSIVE update(_, _)
update(d, e) ==
    IF e = <<>> THEN d
    ELSE update(setitem(d, Head(e)[1], Head(e)[2]), Tail(e))

\* `x or {}` for a nullable JSON column or an optional payload field.
or_empty(x) == IF x = None THEN <<>> ELSE x[1]

\* str() of a JSON scalar inside an f-string.
Digit == <<"0", "1", "2", "3", "4", "5", "6", "7", "8", "9">>
RECURSIVE str_int(_)
str_int(n) ==
    IF n < 10 THEN <<Digit[n + 1]>>
    ELSE str_int(n \div 10) \o <<Digit[(n % 10) + 1]>>
str(v) == IF v.type = "int" THEN str_int(v.val) ELSE v.val

\* RunStatus
PENDING == "PENDING"
RUNNING == "RUNNING"
PASSED == "PASSED"
FAILED == "FAILED"
CANCELED == "CANCELED"
ERROR == "ERROR"
RunStatus == {PENDING, RUNNING, PASSED, FAILED, CANCELED, ERROR}
Terminal == {PASSED, FAILED, CANCELED, ERROR}

VARIABLES
    now,      \* the clock datetime.utcnow() reads
    runs,     \* runs table: run id -> row, NoRow while the id is unused
    steps,    \* run_steps table: run id -> committed rows in insertion order
    pending,  \* run id -> rows flushed in the worker session, not yet committed
    wpc,      \* run id -> position of the run's background worker, or how it ended
    cpc,      \* run id -> stream -> position of the capture task of that stream
    rd,       \* run id -> stream -> number of lines read from the pipe
    child,    \* run id -> the child process: lines written, closed pipes, exit code
    testcases,           \* testcases table: the ids present
    scenarios,           \* scenarios table: the ids present
    group_testcases,     \* group_testcases table: <<group_id, testcase_id>> rows
    scenario_testcases,  \* scenario_testcases table: <<scenario_id, testcase_id>>
    resp,     \* the request answered last and its status code
    job       \* what a worker holds between its lookup and its spawn: the rows
              \* it selected, then the file it wrote and the command it built

vars == <<now, runs, steps, pending, wpc, cpc, rd, child,
          testcases, scenarios, group_testcases, scenario_testcases, resp, job>>

\* The tables of the catalogue.
catalogue == <<testcases, scenarios, group_testcases, scenario_testcases>>

\* What the clock, the cancel request, the worker, its capture tasks and the
\* child leave alone.
others == <<catalogue, resp, job>>

NoRow == [status |-> "absent"]
NoChild == [state |-> "none", out |-> <<>>, err |-> <<>>,
            outClosed |-> FALSE, errClosed |-> FALSE, rc |-> None]

Created == {r \in RunIds : runs[r] # NoRow}

\* line.decode(errors="ignore"): bytes that are not valid are dropped.
decode(line) == SelectSeq(line, LAMBDA b : b < 128)

\* The artifacts lie in the run's own working directory.
workdir(r) == <<"robot_run", r>>
output_xml(r) == <<workdir(r), "output.xml">>
log_html(r) == <<workdir(r), "log.html">>

\* A Run constructed with both target columns set.
NewRunBothTargets(tt, tid, variables, t) ==
    [status |-> PENDING,
     target_type |-> tt,
     testcase_id |-> Some(tid),
     scenario_id |-> Some(tid),
     variables |-> or_empty(variables),
     created_at |-> t,
     started_at |-> None,
     finished_at |-> None,
     robot_output_path |-> None,
     robot_log_path |-> None,
     message |-> None]

\* models.Run(...) as the trigger functions construct it.
NewRun(tt, tid, variables, t) ==
    [status |-> PENDING,
     target_type |-> tt,
     testcase_id |-> IF tt = "testcase" THEN Some(tid) ELSE None,
     scenario_id |-> IF tt = "scenario" THEN Some(tid) ELSE None,
     variables |-> or_empty(variables),
     created_at |-> t,
     started_at |-> None,
     finished_at |-> None,
     robot_output_path |-> None,
     robot_log_path |-> None,
     message |-> None]

NoRequest == [op |-> "none", target_type |-> "", id |-> 0, code |-> 0]
NoJob == [phase |-> "none"]

\* No run yet.
InitRuns ==
    /\ now = 0
    /\ runs = [r \in RunIds |-> NoRow]
    /\ steps = [r \in RunIds |-> <<>>]
    /\ pending = [r \in RunIds |-> <<>>]
    /\ wpc = [r \in RunIds |-> "none"]
    /\ cpc = [r \in RunIds |-> [s \in Streams |-> "idle"]]
    /\ rd = [r \in RunIds |-> [s \in Streams |-> 0]]
    /\ child = [r \in RunIds |-> NoChild]

\* One testcase and one scenario exist, no run yet.
Init ==
    /\ InitRuns
    /\ testcases = {1}
    /\ scenarios = {1}
    /\ group_testcases = {}
    /\ scenario_testcases = {}
    /\ resp = NoRequest
    /\ job = NoJob

\* Time passes.
Tick ==
    /\ now < MaxClock
    /\ now' = now + 1
    /\ UNCHANGED <<runs, steps, pending, wpc, cpc, rd, child, others>>

\* The answer to a request.
Answer(op, tt, id, code) ==
    [op |-> op, target_type |-> tt, id |-> id, code |-> code]

\* RunTrigger.target_type: Literal["testcase", "scenario"]
TargetTypes == {"testcase", "scenario"}

\* The target of a POST /runs payload is in its table.
Found(tt, tid) ==
    \/ tt = "testcase" /\ tid \in testcases
    \/ tt = "scenario" /\ tid \in scenarios

\* POST /runs for an existing target: the row is inserted and committed, the
\* background task is created, the answer is 201.
trigger_run(tt, tid, variables, ids) ==
    /\ tt \in TargetTypes
    /\ Found(tt, tid)
    /\ LET id == Cardinality(Created) + 1 IN
        /\ id \in ids
        /\ runs' = [runs EXCEPT ![id] = NewRun(tt, tid, variables, now)]
        /\ wpc' = [wpc EXCEPT ![id] = "lookup"]
        /\ resp' = Answer("trigger_run", tt, tid, 201)
        /\ UNCHANGED <<now, steps, pending, cpc, rd, child, catalogue, job>>

\* _update_run_status with the two timestamp columns exchanged.
update_run_status_swapped(row, status, message, started_at, finished_at, robot_output_path, robot_log_path) ==
    IF row = NoRow THEN row
    ELSE [row EXCEPT
            !.status = status,
            !.message = IF message # None THEN message ELSE @,
            !.started_at = IF finished_at # None THEN finished_at ELSE @,
            !.finished_at = IF started_at # None THEN started_at ELSE @,
            !.robot_output_path =
                IF robot_output_path # None THEN robot_output_path ELSE @,
            !.robot_log_path =
                IF robot_log_path # None THEN robot_log_path ELSE @]

\* _update_run_status on a row: status is always written, every other column
\* only when its argument is not None.
update_run_status(row, status, message, started_at, finished_at, robot_output_path, robot_log_path) ==
    IF row = NoRow THEN row
    ELSE [row EXCEPT
            !.status = status,
            !.message = IF message # None THEN message ELSE @,
            !.started_at = IF started_at # None THEN started_at ELSE @,
            !.finished_at = IF finished_at # None THEN finished_at ELSE @,
            !.robot_output_path =
                IF robot_output_path # None THEN robot_output_path ELSE @,
            !.robot_log_path =
                IF robot_log_path # None THEN robot_log_path ELSE @]

\* A commit that makes the rows flushed in every worker session durable.
commit_every(r) ==
    /\ steps' = [q \in RunIds |-> steps[q] \o pending[q]]
    /\ pending' = [q \in RunIds |-> <<>>]

\* session.commit() of the worker session of run r: every row flushed so far
\* becomes durable, in insertion order.
commit(r) ==
    /\ steps' = [steps EXCEPT ![r] = @ \o pending[r]]
    /\ pending' = [pending EXCEPT ![r] = <<>>]

\* The worker of run r calls _update_run_status, which ends in flush and commit.
WriteStatus(r, status, message, started_at, finished_at, out_path, log_path) ==
    /\ runs' = [runs EXCEPT ![r] =
                    update_run_status(@, status, message, started_at,
                                      finished_at, out_path, log_path)]
    /\ commit(r)

\* The handler without message=str(exc).
OnExceptionNoMessage(r, exc) ==
    WriteStatus(r, ERROR, None, None, Some(now), None, None)

\* except Exception as exc: ERROR, message=str(exc), finished_at=utcnow().
OnException(r, exc) ==
    WriteStatus(r, ERROR, Some(exc), None, Some(now), None, None)

\* except asyncio.CancelledError: CANCELED, finished_at=utcnow().
OnCancelled(r) ==
    WriteStatus(r, CANCELED, None, None, Some(now), None, None)

\* cancel_run that also notes the status it replaced.
cancel_row_noting(row) ==
    [row EXCEPT !.status = CANCELED, !.message = Some(row.status)]

\* cancel_run that also sets finished_at.
cancel_row_finishing(row) ==
    [row EXCEPT !.status = CANCELED, !.finished_at = Some(row.created_at)]

\* What cancel_run writes to the row it found.
cancel_row(row) == [row EXCEPT !.status = CANCELED]

\* POST /runs/{id}/cancel on an existing run.
cancel_run(r) ==
    /\ r \in Created
    /\ runs' = [runs EXCEPT ![r] = cancel_row(@)]
    /\ UNCHANGED <<now, steps, pending, wpc, cpc, rd, child, others>>

\* POST /runs/{id}/cancel on an id with no run: 404, nothing is written.
cancel_run_not_found(r) ==
    /\ r \notin Created
    /\ resp' = Answer("cancel_run", "", r, 404)
    /\ UNCHANGED <<now, runs, steps, pending, wpc, cpc, rd, child, catalogue, job>>

TargetExists(row) ==
    \/ row.target_type = "testcase" /\ row.testcase_id # None
         /\ row.testcase_id[1] \in testcases
    \/ row.target_type = "scenario" /\ row.scenario_id # None
         /\ row.scenario_id[1] \in scenarios

\* The worker selects its run and the run's testcase or scenario; it returns
\* when one of them is missing.
WorkerLookup(r) ==
    /\ wpc[r] = "lookup"
    /\ wpc' = [wpc EXCEPT ![r] =
                 IF runs[r] # NoRow /\ TargetExists(runs[r])
                 THEN "materialize" ELSE "returned"]
    /\ UNCHANGED <<now, runs, steps, pending, cpc, rd, child, others>>

\* A select of the lookup raises, and the handler's _update_run_status, on the
\* same session, gets its write through: ERROR is recorded.
WorkerLookupFails(r, exc) ==
    /\ wpc[r] = "lookup"
    /\ OnException(r, exc)
    /\ wpc' = [wpc EXCEPT ![r] = "errored"]
    /\ UNCHANGED <<now, cpc, rd, child, others>>

\* A select of the lookup raises, and so does the select of the handler's
\* _update_run_status, issued on the same session with no rollback between
\* them: the exception leaves the handler and ends the task, nothing is written.
WorkerLookupFailsUnrecorded(r) ==
    /\ wpc[r] = "lookup"
    /\ wpc' = [wpc EXCEPT ![r] = "crashed"]
    /\ UNCHANGED <<now, runs, steps, pending, cpc, rd, child, others>>

\* mkdtemp and the write of the test or suite file succeed.
WorkerMaterialize(r) ==
    /\ wpc[r] = "materialize"
    /\ wpc' = [wpc EXCEPT ![r] = "spawn"]
    /\ UNCHANGED <<now, runs, steps, pending, cpc, rd, child, others>>

\* mkdtemp or the write of the file raises.
WorkerMaterializeFails(r, exc) ==
    /\ wpc[r] = "materialize"
    /\ OnException(r, exc)
    /\ wpc' = [wpc EXCEPT ![r] = "errored"]
    /\ UNCHANGED <<now, cpc, rd, child, others>>

\* create_subprocess_exec returns a process with two pipes.
WorkerSpawn(r) ==
    /\ wpc[r] = "spawn"
    /\ child' = [child EXCEPT ![r].state = "running"]
    /\ wpc' = [wpc EXCEPT ![r] = "mark_running"]
    /\ UNCHANGED <<now, runs, steps, pending, cpc, rd, others>>

\* create_subprocess_exec raises.
WorkerSpawnFails(r, exc) ==
    /\ wpc[r] = "spawn"
    /\ OnException(r, exc)
    /\ wpc' = [wpc EXCEPT ![r] = "errored"]
    /\ UNCHANGED <<now, cpc, rd, child, others>>

\* RUNNING with started_at is written, then gather starts both capture tasks.
WorkerMarkRunning(r) ==
    /\ wpc[r] = "mark_running"
    /\ WriteStatus(r, RUNNING, None, Some(now), None, None, None)
    /\ cpc' = [cpc EXCEPT ![r] = [s \in Streams |-> "read"]]
    /\ wpc' = [wpc EXCEPT ![r] = "capture"]
    /\ UNCHANGED <<now, rd, child, others>>

\* The bytes the child has written to a stream, and whether it closed it.
written(r, s) == IF s = "stdout" THEN child[r].out ELSE child[r].err
closed(r, s) == IF s = "stdout" THEN child[r].outClosed ELSE child[r].errClosed

\* The child writes one line to a stream it still holds open.
ChildEmit(r, s, line) ==
    /\ child[r].state = "running"
    /\ ~closed(r, s)
    /\ Len(child[r].out) + Len(child[r].err) < MaxLines
    /\ child' = IF s = "stdout"
                THEN [child EXCEPT ![r].out = Append(@, line)]
                ELSE [child EXCEPT ![r].err = Append(@, line)]
    /\ UNCHANGED <<now, runs, steps, pending, wpc, cpc, rd, others>>

\* The child closes one of its streams and keeps running.
ChildClose(r, s) ==
    /\ child[r].state = "running"
    /\ ~closed(r, s)
    /\ child' = IF s = "stdout"
                THEN [child EXCEPT ![r].outClosed = TRUE]
                ELSE [child EXCEPT ![r].errClosed = TRUE]
    /\ UNCHANGED <<now, runs, steps, pending, wpc, cpc, rd, others>>

\* The child exits with a code; its streams are closed with it.
ChildExit(r, code) ==
    /\ child[r].state = "running"
    /\ child' = [child EXCEPT ![r].state = "exited", ![r].rc = Some(code),
                              ![r].outClosed = TRUE, ![r].errClosed = TRUE]
    /\ UNCHANGED <<now, runs, steps, pending, wpc, cpc, rd, others>>

\* A RunStep tagged stdout whatever stream it came from.
RunStepStdout(stream_name, line, t) ==
    [stream |-> "stdout", message |-> decode(line), ts |-> t]

\* models.RunStep(run_id, stream=stream_name, message=text), ts by default.
RunStep(stream_name, line, t) ==
    [stream |-> stream_name, message |-> decode(line), ts |-> t]

\* _capture_stream, a line was read: the row is added and flushed.
CaptureLine(r, s) ==
    /\ cpc[r][s] = "read"
    /\ rd[r][s] < Len(written(r, s))
    /\ pending' = [pending EXCEPT ![r] =
                      Append(@, RunStep(s, written(r, s)[rd[r][s] + 1], now))]
    /\ rd' = [rd EXCEPT ![r][s] = @ + 1]
    /\ UNCHANGED <<now, runs, steps, wpc, cpc, child, others>>

\* _capture_stream, readline returned b"": the loop ends and the session commits.
CaptureEof(r, s) ==
    /\ cpc[r][s] = "read"
    /\ rd[r][s] = Len(written(r, s))
    /\ closed(r, s)
    /\ commit(r)
    /\ cpc' = [cpc EXCEPT ![r][s] = "done"]
    /\ UNCHANGED <<now, runs, wpc, rd, child, others>>

\* _capture_stream raises (readline on a line over the stream limit): gather
\* hands the first exception to the worker, whose handler records ERROR; the
\* other capture task is left running.
CaptureRaise(r, s, exc) ==
    /\ cpc[r][s] = "read"
    /\ cpc' = [cpc EXCEPT ![r][s] = "failed"]
    /\ IF wpc[r] = "capture"
       THEN /\ OnException(r, exc)
            /\ wpc' = [wpc EXCEPT ![r] = "errored"]
       ELSE UNCHANGED <<runs, steps, pending, wpc>>
    /\ UNCHANGED <<now, rd, child, others>>

\* A wait that returns when the first capture task has returned.
first_done(r) == \E s \in Streams : cpc[r][s] = "done"

\* asyncio.gather returns once both capture tasks have returned.
gather_done(r) == \A s \in Streams : cpc[r][s] = "done"

WorkerJoin(r) ==
    /\ wpc[r] = "capture"
    /\ gather_done(r)
    /\ wpc' = [wpc EXCEPT ![r] = "wait"]
    /\ UNCHANGED <<now, runs, steps, pending, cpc, rd, child, others>>

\* The test on the exit code with its branches exchanged.
status_of_inverted(rc) == IF rc = 0 THEN FAILED ELSE PASSED

\* status = RunStatus.PASSED if rc == 0 else RunStatus.FAILED
status_of(rc) == IF rc = 0 THEN PASSED ELSE FAILED

\* proc.wait() returns the exit code; the final status, finished_at and the
\* artifact paths are written.
WorkerFinish(r) ==
    /\ wpc[r] = "wait"
    /\ child[r].state = "exited"
    /\ WriteStatus(r, status_of(child[r].rc[1]), None, None, Some(now),
                   Some(output_xml(r)), Some(log_html(r)))
    /\ wpc' = [wpc EXCEPT ![r] = "finished"]
    /\ UNCHANGED <<now, cpc, rd, child, others>>

\* The worker's task is cancelled at one of its awaits: the capture tasks still
\* reading are cancelled with it and the handler records CANCELED.
Interrupt(r) ==
    /\ wpc[r] \in {"lookup", "materialize", "spawn", "mark_running", "capture", "wait"}
    /\ cpc' = [cpc EXCEPT ![r] =
                 [s \in Streams |-> IF @[s] = "read" THEN "cancelled" ELSE @[s]]]
    /\ OnCancelled(r)
    /\ wpc' = [wpc EXCEPT ![r] = "cancelled"]
    /\ UNCHANGED <<now, rd, child, others>>

\* What an _update_run_status call of the worker has assigned to the Run object
\* of its session when it reaches its flush: RUNNING with started_at after the
\* spawn, the verdict with finished_at and the artifact paths after the wait.
assigned(r) ==
    IF wpc[r] = "mark_running"
    THEN update_run_status(runs[r], RUNNING, None, Some(now), None, None, None)
    ELSE update_run_status(runs[r], status_of(child[r].rc[1]), None, None,
                           Some(now), Some(output_xml(r)), Some(log_html(r)))

\* The worker's task is cancelled while one of its _update_run_status calls is
\* suspended in flush or commit: the columns that call assigned stay on the Run
\* object of the session, the handler assigns CANCELED and finished_at to the
\* same object and commits them all.
InterruptInUpdate(r) ==
    /\ \/ wpc[r] = "mark_running"
       \/ wpc[r] = "wait" /\ child[r].state = "exited"
    /\ runs' = [runs EXCEPT ![r] =
                    update_run_status(assigned(r), CANCELED, None, None,
                                      Some(now), None, None)]
    /\ commit(r)
    /\ wpc' = [wpc EXCEPT ![r] = "cancelled"]
    /\ UNCHANGED <<now, cpc, rd, child, others>>

\* The variables a POST /runs of Spec carries.
TriggerVariables == {Some(<<<<<<"B">>, JsonInt(3)>>>>)}

Step(ids) ==
    \/ Tick
    \/ \E tt \in TargetTypes, tid \in TestCaseIds \cup ScenarioIds,
          variables \in TriggerVariables :
          trigger_run(tt, tid, variables, ids)
    \/ \E r \in ids : cancel_run(r)
    \/ \E r \in ids : cancel_run_not_found(r)
    \/ \E r \in ids : WorkerLookup(r)
    \/ \E r \in ids, e \in StoreErrors : WorkerLookupFails(r, e)
    \/ \E r \in ids : WorkerLookupFailsUnrecorded(r)
    \/ \E r \in ids : WorkerMaterialize(r)
    \/ \E r \in ids, e \in IOErrors : WorkerMaterializeFails(r, e)
    \/ \E r \in ids : WorkerSpawn(r)
    \/ \E r \in ids, e \in SpawnErrors : WorkerSpawnFails(r, e)
    \/ \E r \in ids : WorkerMarkRunning(r)
    \/ \E r \in ids, s \in Streams, line \in Lines : ChildEmit(r, s, line)
    \/ \E r \in ids, s \in Streams : ChildClose(r, s)
    \/ \E r \in ids, code \in ExitCodes : ChildExit(r, code)
    \/ \E r \in ids, s \in Streams : CaptureLine(r, s)
    \/ \E r \in ids, s \in Streams : CaptureEof(r, s)
    \/ \E r \in ids, s \in Streams, e \in CaptureErrors : CaptureRaise(r, s, e)
    \/ \E r \in ids : WorkerJoin(r)
    \/ \E r \in ids : WorkerFinish(r)
    \/ \E r \in ids : Interrupt(r)
    \/ \E r \in ids : InterruptInUpdate(r)

Next == Step(OneRun)

Spec == Init /\ [][Next]_vars

\* The event loop runs every task that can run, and the child exits.
Fairness ==
    \A r \in OneRun :
        /\ WF_vars(WorkerLookup(r))
        /\ WF_vars(WorkerMaterialize(r))
        /\ WF_vars(WorkerSpawn(r))
        /\ WF_vars(WorkerMarkRunning(r))
        /\ WF_vars(WorkerJoin(r))
        /\ WF_vars(WorkerFinish(r))
        /\ WF_vars(\E code \in ExitCodes : ChildExit(r, code))
        /\ \A s \in Streams : WF_vars(CaptureLine(r, s))
        /\ \A s \in Streams : WF_vars(CaptureEof(r, s))

FairSpec == Spec /\ Fairness

(* --------------------- a run beside a run in flight -------------------- *)
\* Run 1 is in flight and stays where it is: its child has written a line to
\* each stream and closed stdout, the stdout capture task has committed at
\* end-of-stream, the stderr row is flushed, and the child is silent from now
\* on. One more testcase and scenario run can be triggered beside it.
InitTwo ==
    /\ now = 0
    /\ runs = [r \in RunIds |->
                 IF r = 1
                 THEN update_run_status(NewRun("testcase", 1, Some(<<<<<<"B">>, JsonInt(3)>>>>), 0), RUNNING,
                                        None, Some(0), None, None, None)
                 ELSE NoRow]
    /\ steps = [r \in RunIds |->
                  IF r = 1 THEN <<RunStep("stdout", <<65, 10>>, 0)>> ELSE <<>>]
    /\ pending = [r \in RunIds |->
                    IF r = 1 THEN <<RunStep("stderr", <<255, 10>>, 0)>> ELSE <<>>]
    /\ wpc = [r \in RunIds |-> IF r = 1 THEN "capture" ELSE "none"]
    /\ cpc = [r \in RunIds |->
                IF r = 1 THEN [s \in Streams |-> IF s = "stdout" THEN "done" ELSE "read"]
                ELSE [s \in Streams |-> "idle"]]
    /\ rd = [r \in RunIds |-> [s \in Streams |-> IF r = 1 THEN 1 ELSE 0]]
    /\ child = [r \in RunIds |->
                  IF r = 1
                  THEN [state |-> "running", out |-> <<<<65, 10>>>>, err |-> <<<<255, 10>>>>,
                        outClosed |-> TRUE, errClosed |-> FALSE, rc |-> None]
                  ELSE NoChild]
    /\ testcases = {1}
    /\ scenarios = {1}
    /\ group_testcases = {}
    /\ scenario_testcases = {}
    /\ resp = Answer("trigger_run", "testcase", 1, 201)
    /\ job = NoJob

NextTwo == Step(RunIds \ OneRun)

SpecTwo == InitTwo /\ [][NextTwo]_vars

(* ------------- the file a worker writes and the command it builds ----- *)
\* The testcases rows: name (unique) and content.
TestCase(t) ==
    [name |-> IF t = 1 THEN "T1" ELSE "T2",
     content |-> IF t = 1 THEN "Log  hi" ELSE "Log  bye"]

\* The testcase ids associated with scenario sc.
associated(sc) == {p[2] : p \in {q \in scenario_testcases : q[1] = sc}}

\* scenario.testcases as the relationship loads it: the associated testcases,
\* each once, in the order the store returns them.
Orderings(ids) ==
    {q \in [1..Cardinality(ids) -> ids] : \A i, j \in DOMAIN q : q[i] = q[j] => i = j}

\* A nullable JSON column: None or a dict.
OptDicts(vs) == {None} \cup {Some(d) : d \in Dicts(Keys, vs, MaxVars)}

\* The suite with the content of a testcase written before its marker.
RECURSIVE suite_body_content_first(_)
suite_body_content_first(tcs) ==
    IF tcs = <<>> THEN <<>>
    ELSE <<"\n", TestCase(Head(tcs)).content,
           "# ---- Testcase: ", TestCase(Head(tcs)).name, " ----\n", "\n">>
         \o suite_body_content_first(Tail(tcs))

\* The loop of _write_suite: per testcase a blank line, the marker line, the
\* content, a newline.
RECURSIVE suite_body(_)
suite_body(tcs) ==
    IF tcs = <<>> THEN <<>>
    ELSE <<"\n", "# ---- Testcase: ", TestCase(Head(tcs)).name, " ----\n",
           TestCase(Head(tcs)).content, "\n">>
         \o suite_body(Tail(tcs))

\* The text _write_suite writes, piece by piece.
suite_file(tcs) ==
    <<"*** Settings ***\n", "\n", "*** Test Cases ***\n">> \o suite_body(tcs)

\* The text _write_test_file writes.
test_file(content) == <<content>>

\* os.path.join(dir, name) and os.path.basename of such a path.
join(dir, name) == <<dir, name>>
basename(path) == path[Len(path)]

\* merged_vars: Scenario.inputs, then Run.variables over it.
merged_vars(inputs, variables) ==
    update(update(<<>>, or_empty(inputs)), or_empty(variables))

\* f"{k}:{v}"
format_var(k, v) == k \o <<":">> \o str(v)

\* One "-v" followed by every key:value.
var_args_once(d) == <<<<"-v">>>> \o [i \in DOMAIN d |-> format_var(d[i][1], d[i][2])]

\* var_args += ["-v", f"{k}:{v}"] for every item of d.
RECURSIVE var_args(_)
var_args(d) ==
    IF d = <<>> THEN <<>>
    ELSE <<<<"-v">>, format_var(Head(d)[1], Head(d)[2])>> \o var_args(Tail(d))

\* _build_robot_cli
build_robot_cli(args) == <<<<"python">>, <<"-m">>, <<"robot">>>> \o args

\* What the worker of run r holds after its lookup of a testcase run.
TestcaseJob(r, t, variables) ==
    [phase |-> "selected", run_id |-> r, target_type |-> "testcase",
     testcase |-> Some(t), scenario |-> None, inputs |-> None,
     testcases |-> <<>>, variables |-> variables,
     path |-> <<>>, file |-> <<>>, merged_vars |-> <<>>, cmd |-> <<>>]

\* What the worker of run r holds after its lookup of a scenario run.
ScenarioJob(r, sc, inputs, tcs, variables) ==
    [phase |-> "selected", run_id |-> r, target_type |-> "scenario",
     testcase |-> None, scenario |-> Some(sc), inputs |-> inputs,
     testcases |-> tcs, variables |-> variables,
     path |-> <<>>, file |-> <<>>, merged_vars |-> <<>>, cmd |-> <<>>]

\* A worker has selected its run and the run's target: any testcase or any
\* scenario with any inputs and associations, under any Run.variables.
InitCli ==
    /\ InitRuns
    /\ testcases = TestCaseIds
    /\ scenarios = ScenarioIds
    /\ group_testcases = {}
    /\ scenario_testcases \in SUBSET (ScenarioIds \X TestCaseIds)
    /\ resp = NoRequest
    /\ job \in {TestcaseJob(r, t, v) :
                    r \in OneRun, t \in TestCaseIds, v \in OptDicts(VariableValues)}
              \cup UNION {{ScenarioJob(r, sc, i, tcs, v) :
                              r \in OneRun, i \in OptDicts(InputValues),
                              tcs \in Orderings(associated(sc)),
                              v \in OptDicts(VariableValues)} : sc \in ScenarioIds}

\* The worker writes testcase.robot with the testcase's content, or suite.robot
\* with the suite of the scenario's testcases, into the working directory.
WorkerWriteFile ==
    /\ job.phase = "selected"
    /\ job' = IF job.target_type = "testcase"
              THEN [job EXCEPT !.phase = "written",
                      !.path = join(workdir(job.run_id), "testcase.robot"),
                      !.file = test_file(TestCase(job.testcase[1]).content)]
              ELSE [job EXCEPT !.phase = "written",
                      !.path = join(workdir(job.run_id), "suite.robot"),
                      !.file = suite_file(job.testcases)]
    /\ UNCHANGED <<now, runs, steps, pending, wpc, cpc, rd, child, catalogue, resp>>

\* The worker builds the command: the variables of the run, over the inputs of
\* the scenario for a scenario run, then the arguments.
WorkerBuildCommand ==
    /\ job.phase = "written"
    /\ LET effective == IF job.target_type = "testcase"
                        THEN or_empty(job.variables)
                        ELSE merged_vars(job.inputs, job.variables)
       IN  job' = [job EXCEPT !.phase = "built",
                     !.merged_vars = effective,
                     !.cmd = build_robot_cli(
                                <<<<"--output">>, output_xml(job.run_id),
                                  <<"--log">>, log_html(job.run_id)>>
                                \o var_args(effective)
                                \o <<<<basename(job.path)>>>>)]
    /\ UNCHANGED <<now, runs, steps, pending, wpc, cpc, rd, child, catalogue, resp>>

NextCli == WorkerWriteFile \/ WorkerBuildCommand

SpecCli == InitCli /\ [][NextCli]_vars

(* ------------------- requests on the catalogue and the runs ------------ *)
\* The target types a POST /runs payload can carry.
PayloadTargetTypes == TargetTypes \cup {"group"}

\* POST /runs whose target_type is valid and whose target is not in its table:
\* the handler raises 404 before anything is written.
trigger_run_not_found(tt, tid) ==
    /\ tt \in TargetTypes
    /\ ~Found(tt, tid)
    /\ resp' = Answer("trigger_run", tt, tid, 404)
    /\ UNCHANGED <<now, runs, steps, pending, wpc, cpc, rd, child, catalogue, job>>

\* POST /runs whose target_type is not one of the Literal of RunTrigger: the
\* payload fails validation, the request is answered 422 and the handler, with
\* its final raise of 400, is not entered.
trigger_run_invalid(tt, tid) ==
    /\ tt \notin TargetTypes
    /\ resp' = Answer("trigger_run", tt, tid, 422)
    /\ UNCHANGED <<now, runs, steps, pending, wpc, cpc, rd, child, catalogue, job>>

\* A row of runs holds testcase t in its testcase_id, a foreign key to
\* testcases.id declared without ondelete.
Referenced(t) == \E r \in Created : runs[r].testcase_id = Some(t)

\* The DELETE on testcases violates the foreign key of runs.
Restricts(t) == t \in testcases /\ Referenced(t)

\* DELETE /testcases/{id}: the association rows are deleted, then the testcase,
\* then the session commits; 204 when a testcase row was deleted, 404 when not.
\* When the delete of the testcase raises, nothing is committed and the
\* request is answered 500.
delete_testcase(t) ==
    /\ IF Restricts(t)
       THEN /\ resp' = Answer("delete_testcase", "", t, 500)
            /\ UNCHANGED catalogue
       ELSE /\ group_testcases' = {p \in group_testcases : p[2] # t}
            /\ scenario_testcases' = {p \in scenario_testcases : p[2] # t}
            /\ testcases' = testcases \ {t}
            /\ resp' = Answer("delete_testcase", "", t,
                              IF t \in testcases THEN 204 ELSE 404)
            /\ UNCHANGED scenarios
    /\ UNCHANGED <<now, runs, steps, pending, wpc, cpc, rd, child, job>>

\* Any catalogue, no run yet.
InitStore ==
    /\ InitRuns
    /\ testcases \in SUBSET TestCaseIds
    /\ scenarios \in SUBSET ScenarioIds
    /\ group_testcases \in SUBSET (GroupIds \X testcases)
    /\ scenario_testcases \in SUBSET (scenarios \X testcases)
    /\ resp = NoRequest
    /\ job = NoJob

NextStore ==
    \/ \E tt \in TargetTypes, tid \in TestCaseIds \cup ScenarioIds,
          variables \in {None} \cup TriggerVariables :
          trigger_run(tt, tid, variables, RunIds)
    \/ \E tt \in TargetTypes, tid \in TestCaseIds \cup ScenarioIds :
          trigger_run_not_found(tt, tid)
    \/ \E tt \in PayloadTargetTypes, tid \in TestCaseIds \cup ScenarioIds :
          trigger_run_invalid(tt, tid)
    \/ \E t \in TestCaseIds : delete_testcase(t)

SpecStore == InitStore /\ [][NextStore]_vars

(* ------------------------------ the reader ---------------------------- *)
\* SELECT RunStep WHERE run_id = r ORDER BY ts ASC over the committed rows:
\* every listing the store may return; it is free in the order of rows of
\* equal ts.
get_run_steps(r) ==
    { [i \in DOMAIN order |-> steps[r][order[i]]] :
        order \in { o \in Orderings(DOMAIN steps[r]) :
                      \A i, j \in DOMAIN o :
                         i < j => steps[r][o[i]].ts <= steps[r][o[j]].ts } }

\* GET /logs/{run_id}/steps on an existing run.
get_steps(r) ==
    /\ r \in Created
    /\ \E body \in get_run_steps(r) :
          resp' = [op |-> "get_steps", target_type |-> "", id |-> r, code |-> 200,
                   body |-> body]
    /\ UNCHANGED <<now, runs, steps, pending, wpc, cpc, rd, child, catalogue, job>>

\* GET /logs/{run_id}/steps on an id with no run: 404.
get_steps_not_found(r) ==
    /\ r \notin Created
    /\ resp' = Answer("get_steps", "", r, 404)
    /\ UNCHANGED <<now, runs, steps, pending, wpc, cpc, rd, child, catalogue, job>>

\* A run and a reader of its steps.
NextLogs ==
    \/ Step(OneRun)
    \/ \E r \in OneRun : get_steps(r)
    \/ \E r \in OneRun : get_steps_not_found(r)

SpecLogs == Init /\ [][NextLogs]_vars

(* ------------------------------- claims ------------------------------- *)
WorkerEnded(r) ==
    wpc[r] \in {"finished", "errored", "cancelled", "returned", "crashed"}

\* A step of POST /runs/{id}/cancel on run r: the only operation that writes
\* the runs table and nothing else.
CancelStep(r) ==
    /\ r \in Created
    /\ runs' = [runs EXCEPT ![r] = cancel_row(@)]
    /\ UNCHANGED <<now, steps, pending, wpc, cpc, rd, child>>

\* C1 (safety part): a triggered Run is created PENDING under an id that was
\* unused, and over its lifetime it takes exactly one terminal status: a Run
\* in a terminal status never moves to another terminal status.
C1_PendingThenOneTerminal ==
    [][\A r \in RunIds :
          /\ (runs[r] = NoRow /\ runs'[r] # NoRow) => runs'[r].status = PENDING
          /\ (runs[r] # NoRow /\ runs[r].status \in Terminal /\ runs'[r].status \in Terminal)
                => runs'[r].status = runs[r].status]_vars

\* C1 (liveness part): under FairSpec every triggered Run ends up in a
\* terminal status for good, unless its worker died in its exception handler.
C1_EventuallyTerminal ==
    \A r \in OneRun :
        (runs[r] # NoRow)
            ~> (wpc[r] = "crashed" \/ [](runs[r].status \in Terminal))

\* C2: once a Run's status is terminal no step changes it.
C2_TerminalIsFinal ==
    [][\A r \in RunIds :
          (runs[r] # NoRow /\ runs[r].status \in Terminal)
             => runs'[r].status = runs[r].status]_vars

\* C3: a cancel request on a Run whose status is terminal leaves the status
\* as it is.
C3_CancelTerminalNoOp ==
    [][\A r \in RunIds :
          (CancelStep(r) /\ runs[r].status \in Terminal)
             => runs'[r].status = runs[r].status]_vars

\* C4: a cancel request leaves the Run in a row that a second cancel request
\* would not change, so cancelling twice in succession equals cancelling once.
C4_CancelIdempotent ==
    [][\A r \in RunIds :
          CancelStep(r) => cancel_row(runs'[r]) = runs'[r]]_vars

C4_Witness ==
    \E r \in Created :
        /\ runs[r].status = CANCELED
        /\ runs[r].finished_at = None
        /\ runs[r].started_at # None
        /\ wpc[r] = "capture"

\* C5: when the worker completes after the capture, it records PASSED exactly
\* for exit code 0 and FAILED exactly for a nonzero exit code, and it does not
\* write message; testcase and scenario runs alike.
C5_ExitCodeDecides ==
    [][\A r \in RunIds :
          (wpc[r] # "finished" /\ wpc'[r] = "finished")
             => /\ (runs'[r].status = PASSED) <=> (child[r].rc = Some(0))
                /\ (runs'[r].status = FAILED) <=> (child[r].rc # Some(0))
                /\ runs'[r].message = runs[r].message]_vars

C5_Witness ==
    \E r \in Created :
        /\ wpc[r] = "finished"
        /\ runs[r].target_type = "scenario"
        /\ child[r].rc = Some(2)
        /\ runs[r].status = FAILED
        /\ runs[r].message = None

\* C6: a Run whose process is not yet spawned was never RUNNING, and when the
\* spawn raises the worker records ERROR with the exception text as message
\* and finished_at, and leaves started_at unset.
C6_SpawnFailure ==
    /\ [](\A r \in Created :
            wpc[r] \in {"lookup", "materialize", "spawn"}
               => runs[r].status \in {PENDING, CANCELED} /\ runs[r].started_at = None)
    /\ [][\A r \in RunIds :
            (wpc[r] = "spawn" /\ wpc'[r] = "errored")
               => /\ runs'[r].status = ERROR
                  /\ runs'[r].message # None
                  /\ runs'[r].message[1] \in SpawnErrors
                  /\ runs'[r].message[1] # ""
                  /\ runs'[r].finished_at = Some(now)
                  /\ runs'[r].started_at = None]_vars

C6_Witness ==
    \E r \in Created :
        /\ wpc[r] = "errored"
        /\ runs[r].status = ERROR
        /\ runs[r].message = Some("ENOENT")
        /\ runs[r].finished_at # None
        /\ runs[r].started_at = None

\* C7: every Run in a terminal status has finished_at set.
C7_TerminalHasFinishedAt ==
    \A r \in Created :
        runs[r].status \in Terminal => runs[r].finished_at # None

\* C8: a Run with started_at and finished_at both set has
\* started_at <= finished_at.
C8_StartedBeforeFinished ==
    \A r \in Created :
        (runs[r].started_at # None /\ runs[r].finished_at # None)
            => runs[r].started_at[1] <= runs[r].finished_at[1]

C8_Witness ==
    \E r \in Created :
        /\ runs[r].started_at # None
        /\ runs[r].finished_at # None
        /\ runs[r].started_at[1] < runs[r].finished_at[1]

\* The messages of the committed RunSteps of run r tagged s, in insertion order.
StepsOf(r, s) ==
    LET tagged == SelectSeq(steps[r], LAMBDA st : st.stream = s)
    IN  [i \in 1..Len(tagged) |-> tagged[i].message]

Decoded(lines) == [i \in 1..Len(lines) |-> decode(lines[i])]

\* C9: once the capture of a run has completed, its committed RunSteps are
\* exactly the lines the child wrote: per stream the same lines in the same
\* order under that stream's tag, no row beyond them, none left uncommitted.
C9_StepsMatchLines ==
    \A r \in RunIds :
        gather_done(r)
            => /\ pending[r] = <<>>
               /\ \A s \in Streams : StepsOf(r, s) = Decoded(written(r, s))
               /\ Len(steps[r]) = Len(child[r].out) + Len(child[r].err)

C9_Witness ==
    \E r \in RunIds :
        /\ gather_done(r)
        /\ Len(child[r].out) = 1
        /\ Len(child[r].err) = 1
        /\ child[r].out[1] # child[r].err[1]
        /\ steps[r][1].stream = "stderr"

\* C10: a Run is PASSED or FAILED only when both capture tasks have reached
\* end-of-stream and the exit code has been obtained.
C10_JoinBeforeVerdict ==
    \A r \in Created :
        (runs[r].status \in {PASSED, FAILED} \/ wpc[r] \in {"wait", "finished"})
            => /\ \A s \in Streams : cpc[r][s] = "done" /\ closed(r, s)
                                       /\ rd[r][s] = Len(written(r, s))
               /\ (runs[r].status \in {PASSED, FAILED} => child[r].rc # None)

C10_Witness ==
    \E r \in Created :
        /\ runs[r].status \in {PASSED, FAILED}
        /\ Len(child[r].out) = 0
        /\ Len(child[r].err) = 2

\* C11: while both capture tasks of a run are still reading (no stream at
\* end-of-stream, run not finished), every line captured so far is already a
\* committed RunStep, the only rows a reader in another session can see.
C11_LineVisibleOnCapture ==
    \A r \in Created :
        (wpc[r] = "capture" /\ \A s \in Streams : cpc[r][s] = "read")
            => /\ pending[r] = <<>>
               /\ Len(steps[r]) = rd[r]["stdout"] + rd[r]["stderr"]

\* C18: no step makes more than one write of a run durable: at most one
\* RunStep row or one change of the Run row is committed at a time.
C18_OneWritePerCommit ==
    [][\A r \in RunIds :
          (Len(steps'[r]) - Len(steps[r]))
             + (IF runs'[r] # runs[r] THEN 1 ELSE 0) <= 1]_vars

\* C19: a worker that ended on an exception has left its Run out of PENDING
\* and RUNNING with message and finished_at set, and the step on which the
\* exception ended it wrote ERROR, the exception text and finished_at.
C19_ExceptionRecordsError ==
    /\ [](\A r \in Created :
            wpc[r] \in {"errored", "crashed"}
               => /\ runs[r].status \notin {PENDING, RUNNING}
                  /\ runs[r].message # None
                  /\ runs[r].finished_at # None)
    /\ [][\A r \in RunIds :
            (wpc[r] \notin {"errored", "crashed"}
                /\ wpc'[r] \in {"errored", "crashed"})
               => /\ runs'[r].status = ERROR
                  /\ runs'[r].message # None
                  /\ runs'[r].finished_at = Some(now)]_vars

\* C20: the step on which a worker that has not recorded a terminal status is
\* interrupted writes CANCELED and finished_at, and leaves message and the
\* artifact paths as they were.
C20_InterruptRecordsCanceled ==
    [][\A r \in RunIds :
          (wpc[r] # "cancelled" /\ wpc'[r] = "cancelled")
             => /\ runs'[r].status = CANCELED
                /\ runs'[r].finished_at = Some(now)
                /\ runs'[r].message = runs[r].message
                /\ runs'[r].robot_output_path = runs[r].robot_output_path
                /\ runs'[r].robot_log_path = runs[r].robot_log_path]_vars

\* C17: every Run has exactly one of testcase_id and scenario_id set, the one
\* its target_type names, and no step changes target_type, testcase_id,
\* scenario_id or variables of a Run that exists.
C17_TargetFixedAtCreation ==
    /\ [](\A r \in Created :
            /\ (runs[r].testcase_id # None) # (runs[r].scenario_id # None)
            /\ runs[r].target_type = "testcase" <=> runs[r].testcase_id # None
            /\ runs[r].target_type = "scenario" <=> runs[r].scenario_id # None)
    /\ [][\A r \in RunIds :
            runs[r] # NoRow
               => /\ runs'[r].target_type = runs[r].target_type
                  /\ runs'[r].testcase_id = runs[r].testcase_id
                  /\ runs'[r].scenario_id = runs[r].scenario_id
                  /\ runs'[r].variables = runs[r].variables]_vars

C17_Witness ==
    \E r \in Created :
        /\ wpc[r] = "finished"
        /\ runs[r].status = CANCELED
        /\ runs[r].target_type = "scenario"
        /\ runs[r].scenario_id = Some(1)
        /\ runs[r].testcase_id = None
        /\ runs[r].variables # <<>>
        /\ runs[r].robot_log_path # None

\* C12: the variables a scenario run passes to the runner are Scenario.inputs
\* overlaid by Run.variables: one item per key of either, with the value of
\* Run.variables where it has the key and of Scenario.inputs elsewhere; a
\* null column counts as empty.
C12_VariablesOverInputs ==
    (job.phase = "built" /\ job.target_type = "scenario")
        => LET m == job.merged_vars
               i == IF job.inputs = None THEN <<>> ELSE job.inputs[1]
               v == IF job.variables = None THEN <<>> ELSE job.variables[1]
           IN  /\ keys(m) = keys(i) \cup keys(v)
               /\ Len(m) = Cardinality(keys(m))
               /\ \A k \in keys(v) : get(m, k) = get(v, k)
               /\ \A k \in keys(i) \ keys(v) : get(m, k) = get(i, k)

C12_Witness ==
    /\ job.phase = "built"
    /\ job.target_type = "scenario"
    /\ job.inputs = Some(<<<<<<"A">>, JsonInt(1)>>, <<<<"B">>, JsonInt(2)>>>>)
    /\ job.variables = Some(<<<<<<"B">>, JsonInt(3)>>, <<<<"C">>, JsonStr(<<"4">>)>>>>)
    /\ job.merged_vars = <<<<<<"A">>, JsonInt(1)>>, <<<<"B">>, JsonInt(3)>>,
                           <<<<"C">>, JsonStr(<<"4">>)>>>>

\* The value the runner is to get for key k of a built job: for a testcase
\* run that of Run.variables, for a scenario run that of Run.variables where
\* it has the key and of Scenario.inputs elsewhere.
EffectiveKeys ==
    LET i == IF job.inputs = None THEN {} ELSE keys(job.inputs[1])
        v == IF job.variables = None THEN {} ELSE keys(job.variables[1])
    IN  IF job.target_type = "testcase" THEN v ELSE i \cup v
EffectiveValue(k) ==
    IF job.variables # None /\ k \in keys(job.variables[1])
    THEN get(job.variables[1], k) ELSE get(job.inputs[1], k)

\* C13: the command is python, -m, robot, --output and the output path, --log
\* and the log path, then one "-v" and "key:value" pair for every effective
\* variable and for nothing else, then the name of the file the worker wrote
\* in the working directory, last.
C13_CommandLine ==
    job.phase = "built"
        => LET c == job.cmd
               n == Cardinality(EffectiveKeys)
               pair(i) == 7 + 2 * i
           IN  /\ Len(c) = 7 + 2 * n + 1
               /\ SubSeq(c, 1, 3) = <<<<"python">>, <<"-m">>, <<"robot">>>>
               /\ c[4] = <<"--output">> /\ c[5] = output_xml(job.run_id)
               /\ c[6] = <<"--log">> /\ c[7] = log_html(job.run_id)
               /\ \A i \in 1..n : c[pair(i) - 1] = <<"-v">>
               /\ \A k \in EffectiveKeys :
                     Cardinality({i \in 1..n :
                        c[pair(i)] = k \o <<":">> \o str(EffectiveValue(k))}) = 1
               /\ job.path = <<workdir(job.run_id), c[Len(c)][1]>>
               /\ Len(c[Len(c)]) = 1
               /\ job.file # <<>>

C13_Witness ==
    /\ job.phase = "built"
    /\ job.target_type = "testcase"
    /\ job.variables = Some(<<<<<<"C">>, JsonStr(<<"4">>)>>, <<<<"A">>, JsonInt(3)>>>>)
    /\ job.cmd = <<<<"python">>, <<"-m">>, <<"robot">>,
                   <<"--output">>, <<<<"robot_run", 1>>, "output.xml">>,
                   <<"--log">>, <<<<"robot_run", 1>>, "log.html">>,
                   <<"-v">>, <<"C", ":", "4">>, <<"-v">>, <<"A", ":", "3">>,
                   <<"testcase.robot">>>>

C15_DeleteReferencedTestCase ==
    [][\A t \in TestCaseIds :
          (resp' # resp /\ resp'.op = "delete_testcase" /\ resp'.id = t
              /\ t \in testcases /\ Referenced(t))
             => /\ t \notin testcases'
                /\ \A p \in group_testcases' \cup scenario_testcases' : p[2] # t
                /\ runs' = runs]_vars

\* C16: a POST /runs with a valid target_type and no such target is answered
\* 404, one with any other target_type is answered 400, and neither writes a
\* row, starts a worker or changes the store.
C16_TriggerErrors ==
    [][(resp' # resp /\ resp'.op = "trigger_run")
          => /\ (resp'.target_type \in TargetTypes
                    /\ ~Found(resp'.target_type, resp'.id))
                 => /\ resp'.code = 404
                    /\ UNCHANGED <<runs, steps, pending, wpc, catalogue>>
             /\ resp'.target_type \notin TargetTypes
                 => /\ resp'.code = 400
                    /\ UNCHANGED <<runs, steps, pending, wpc, catalogue>>]_vars

\* C21: a step that changes a Run while no worker and no capture task moves
\* is a cancel request: it sets that Run's status to CANCELED and changes no
\* other column, no other Run, no RunStep, and leaves the worker, its capture
\* tasks and the child where they are; a cancel request on an unknown id is
\* answered 404 and changes nothing.
C21_CancelOnlyFlipsStatus ==
    [][/\ \A r \in RunIds :
             (runs'[r] # runs[r] /\ wpc' = wpc /\ cpc' = cpc)
                => /\ runs[r] # NoRow
                   /\ runs'[r] = [runs[r] EXCEPT !.status = CANCELED]
                   /\ \A q \in RunIds \ {r} : runs'[q] = runs[q]
                   /\ UNCHANGED <<steps, pending, rd, child, catalogue>>
       /\ (resp' # resp /\ resp'.op = "cancel_run")
             => /\ resp'.id \notin Created
                /\ resp'.code = 404
                /\ UNCHANGED <<runs, steps, pending, wpc, cpc, rd, child, catalogue>>]_vars

C21_Witness ==
    /\ runs[2] # NoRow
    /\ runs[2].status = CANCELED
    /\ runs[2].started_at # None
    /\ runs[2].finished_at = None
    /\ wpc[2] = "capture"
    /\ pending[2] # <<>>
    /\ steps[2] # <<>>
    /\ runs[1].status = RUNNING
    /\ resp.code = 201

C23_StepsInArrivalOrder ==
    [][(resp' # resp /\ resp'.op = "get_steps")
          => IF resp'.id \in Created
             THEN /\ resp'.code = 200
                  /\ Len(resp'.body) = Len(steps[resp'.id])
                  /\ \A s \in Streams :
                        SelectSeq(resp'.body, LAMBDA st : st.stream = s)
                           = SelectSeq(steps[resp'.id], LAMBDA st : st.stream = s)
             ELSE resp'.code = 404]_vars

\* C24: once the worker of a Run has recorded PASSED, FAILED or ERROR, no
\* RunStep of that Run is inserted and none is committed, also when one capture
\* task raised while the other was still reading.
C24_NoStepAfterTerminal ==
    [][\A r \in RunIds :
          wpc[r] \in {"finished", "errored"}
             => /\ steps'[r] = steps[r]
                /\ pending'[r] = pending[r]]_vars

\* C25: in every reachable state a Run that is RUNNING, PASSED or FAILED has
\* started_at set, and a Run has its two artifact paths, output.xml and
\* log.html inside its own working directory, exactly when its worker has
\* recorded PASSED or FAILED for it; otherwise it has neither path.
C25_StartedAndArtifacts ==
    \A r \in Created :
       /\ runs[r].status \in {RUNNING, PASSED, FAILED} => runs[r].started_at # None
       /\ IF wpc[r] = "finished"
          THEN /\ runs[r].robot_output_path = Some(output_xml(r))
               /\ runs[r].robot_log_path = Some(log_html(r))
          ELSE /\ runs[r].robot_output_path = None
               /\ runs[r].robot_log_path = None
====
